---- MODULE Spec2Model ----
(***************************************************************************)
(* Session lifecycle controller of Memorando (backend/services/            *)
(* study_service.py) together with the read-and-repeat study method        *)
(* (backend/core/study_methods/method_read_repeat.py) and the status       *)
(* endpoint (backend/api/study_routes.py).                                 *)
(*                                                                         *)
(* The controller has no lock.  Every read or write of a shared attribute  *)
(* (is_session_active, current_method, session_thread, stop_requested) is  *)
(* one atomic step; statements that only touch locals are merged into the  *)
(* neighbouring step.  Each action is named after the source line it       *)
(* executes: S49 is line 49 of start_study_session, T91 line 91 of         *)
(* _run_method_safely, R41 line 41 of ReadRepeatMethod.run, P108 line 108  *)
(* of stop_study_session, G97 line 97 of get_study_status.                 *)
(* Time is abstracted: a blocking speak, the repeat pause and the join     *)
(* timeout may each take any amount of time.                               *)
(***************************************************************************)
EXTENDS Integers, Sequences, FiniteSets, TLC

\* Number of sessions (method instance + thread) that may be created: in the
\* specifications with a stopped session's thread still running next to a
\* new session (MaxSessions), and in the one-session specification.
MaxSessions == 2
SoloSessions == 1
\* Calls each request-handling thread issues when two of them run at once.
ConcCalls == 1
\* Largest number of fragments the fragment source yields.
MaxFragments == 2

\* Python's None for current_method / session_thread.
None == 0
\* Request-handling threads of the web server that call into the controller.
Callers == {"c1", "c2"}
Ids == 1..(IF MaxSessions > SoloSessions THEN MaxSessions ELSE SoloSessions)
\* callsLeft value of a request-handling thread that issues any number of calls
Unlimited == 0 - 1

VARIABLES
    is_session_active,  \* StudyService.is_session_active
    current_method,     \* StudyService.current_method (None or a method id)
    session_thread,     \* StudyService.session_thread (None or a thread id)
    methods,            \* the ReadRepeatMethod instances created so far
    threads,            \* the threading.Thread objects created so far
    callers,            \* the request-handling threads and their locals
    nextId,             \* next fresh object id
    quota,              \* sessions that may be created, calls left per caller
    ttsCall,            \* the TtsEngine call made by the latest step, if any
    doc                 \* a DocumentProcessor and its fragment_text call

vars == <<is_session_active, current_method, session_thread, methods, threads,
          callers, nextId, quota, ttsCall, doc>>

\* AVAILABLE_METHODS: the registered method names.
AVAILABLE_METHODS == {"read_repeat"}
MethodNames == {"read_repeat", "flashcards"}

\* Outcomes of DocumentProcessor(pdf_path).fragment_text(split_by):
\* -1 is a raised exception, n >= 0 a list of n fragments.
Raises == 0 - 1
Outcomes == {Raises} \cup (0..MaxFragments)
\* The list of n fragments; fragment i carries the text i.  In a method
\* instance, spoken is the sequence of speak calls its run() has made,
\* stopped tells whether its stop() has been called and runs counts the
\* calls of its run().
StudyData(n) == [i \in 1..n |-> i]

\* ReadRepeatMethod.__init__
NewMethod(data) ==
    [study_data |-> data, stop_requested |-> FALSE, is_running |-> FALSE,
     spoken |-> <<>>, stopped |-> FALSE, runs |-> 0]
NoMethod == NewMethod(<<>>)

\* threading.Thread(target=self._run_method_safely)
\* (interrupted: stop_speaking was called while the thread's speak call was
\* in progress)
NoThread == [pc |-> "none", m |-> None, i |-> 0, interrupted |-> FALSE]
Started(t) == threads[t].pc \notin {"none", "created"}
\* Thread.is_alive()
Alive(t) == threads[t].pc \notin {"none", "created", "done"}
\* the thread is inside current_method.run()
InRun(t) == threads[t].pc \in {"r37", "r41", "speaking", "r57"}

IdleCaller ==
    [pc |-> "idle", op |-> "none", known |-> FALSE, src |-> 0, m |-> None,
     ret |-> "none", found |-> FALSE, nstop |-> 0, timedOut |-> FALSE,
     proc |-> FALSE, msg |-> "none", snapActive |-> FALSE,
     snapMethod |-> None, prev |-> None, spawned |-> FALSE, listing |-> {},
     resp |-> "none"]

\* no DocumentProcessor under study (the controller's use of the fragment
\* source is drawn from Outcomes)
NoDoc == [raw_text |-> <<>>, split_by |-> "paragraph", fragments |-> <<>>,
          pc |-> "none"]

\* StudyService.__init__
InitService ==
    /\ is_session_active = FALSE
    /\ current_method = None
    /\ session_thread = None
    /\ methods = [k \in Ids |-> NoMethod]
    /\ threads = [k \in Ids |-> NoThread]
    /\ nextId = 1
    /\ ttsCall = "none"

\* Two request-handling threads, ConcCalls calls each.
Init ==
    /\ InitService
    /\ callers = [c \in Callers |-> IdleCaller]
    /\ quota = [sessions |-> MaxSessions,
                calls |-> [c \in Callers |-> ConcCalls]]
    /\ doc = NoDoc

\* One request-handling thread: the second one never issues a call.
OneCaller == [c \in Callers |-> IF c = "c1" THEN Unlimited ELSE 0]

InitSeq ==
    /\ InitService
    /\ callers = [c \in Callers |-> IdleCaller]
    /\ quota = [sessions |-> MaxSessions, calls |-> OneCaller]
    /\ doc = NoDoc

\* One request-handling thread and SoloSessions sessions.
InitSolo ==
    /\ InitService
    /\ callers = [c \in Callers |-> IdleCaller]
    /\ quota = [sessions |-> SoloSessions, calls |-> OneCaller]
    /\ doc = NoDoc

\* a step that makes no call to the TtsEngine
NoTts == ttsCall' = "none"

Return(c, r) == [callers EXCEPT ![c].pc = "idle", ![c].ret = r]
Goto(c, p) == [callers EXCEPT ![c].pc = p]

Service == <<is_session_active, current_method, session_thread>>

\* Method instance k is referenced: by the controller, by a thread that is
\* running it, or by a stop call that is inside its stop().
Referenced(k, cm, th, ca) ==
    \/ cm = k
    \/ \E t \in Ids : th[t].m = k
    \/ \E c \in Callers : ca[c].pc \in {"p67", "p69"} /\ ca[c].m = k

\* The methods after a step that leaves them as ms: an instance nothing
\* refers to any more is destroyed (reference counting).
Collect(ms) ==
    methods' = [k \in Ids |->
                  IF Referenced(k, current_method', threads', callers')
                  THEN ms[k] ELSE NoMethod]

----------------------------------------------------------------------------
\* Calls issued by a request-handling thread.

\* caller c issues one more call
Issue(c) ==
    /\ quota.calls[c] # 0
    /\ quota' = IF quota.calls[c] = Unlimited THEN quota
                ELSE [quota EXCEPT !.calls[c] = @ - 1]

\* The arguments of start_study_session are first read at line 54; they
\* are drawn there.
CallStart(c) ==
    /\ callers[c].pc = "idle"
    /\ Issue(c)
    /\ UNCHANGED doc
    /\ callers' = [callers EXCEPT ![c] =
            [IdleCaller EXCEPT !.pc = "s49", !.op = "start"]]
    /\ NoTts
    /\ UNCHANGED <<Service, methods, threads, nextId>>

CallStop(c) ==
    /\ callers[c].pc = "idle"
    /\ Issue(c)
    /\ UNCHANGED doc
    /\ callers' = [callers EXCEPT ![c] =
            [IdleCaller EXCEPT !.pc = "p108", !.op = "stop"]]
    /\ NoTts
    /\ UNCHANGED <<Service, methods, threads, nextId>>

\* prev remembers the method of a start that returned True right before.
CallStatus(c) ==
    /\ callers[c].pc = "idle"
    /\ Issue(c)
    /\ UNCHANGED doc
    /\ callers' = [callers EXCEPT ![c] =
            [IdleCaller EXCEPT !.pc = "g97", !.op = "status",
                !.prev = IF callers[c].op = "start" /\ callers[c].ret = "true"
                         THEN callers[c].m ELSE None]]
    /\ NoTts
    /\ UNCHANGED <<Service, methods, threads, nextId>>

----------------------------------------------------------------------------
\* StudyService.start_study_session

\* the call returns r after printing message msg
Reply(c, r, msg) ==
    [callers EXCEPT ![c].pc = "idle", ![c].ret = r, ![c].msg = msg]

\* S49 without the admission check (a start that never refuses)
S49NoCheck(c) ==
    /\ callers[c].pc = "s49"
    /\ callers' = Goto(c, "s54")
    /\ NoTts
    /\ UNCHANGED <<quota, doc>>
    /\ UNCHANGED <<Service, methods, threads, nextId>>

\* if self.is_session_active: print("... already active ..."); return False
S49(c) ==
    /\ callers[c].pc = "s49"
    /\ callers' = IF is_session_active THEN Reply(c, "false", "active")
                  ELSE Goto(c, "s54")
    /\ NoTts
    /\ UNCHANGED <<quota, doc>>
    /\ UNCHANGED <<Service, methods, threads, nextId>>

\* calls that are about to create a session
Pending == Cardinality({c \in Callers : callers[c].pc = "s69"})

\* S54 that opens the document before it looks the method up
S54LookupLate(c, name, outcome) ==
    /\ callers[c].pc = "s54"
    /\ (name \in AVAILABLE_METHODS /\ outcome > 0)
            => nextId + Pending <= quota.sessions
    /\ callers' =
         IF name \notin AVAILABLE_METHODS
         THEN [callers EXCEPT ![c].pc = "idle", ![c].ret = "false",
                              ![c].msg = "unknown", ![c].proc = TRUE]
         ELSE IF outcome = Raises
         THEN [callers EXCEPT ![c].pc = "s86", ![c].known = TRUE,
                              ![c].src = outcome, ![c].proc = TRUE]
         ELSE IF outcome = 0
         THEN [callers EXCEPT ![c].pc = "idle", ![c].ret = "false",
                              ![c].msg = "no_data", ![c].known = TRUE,
                              ![c].src = outcome, ![c].proc = TRUE]
         ELSE [callers EXCEPT ![c].pc = "s69", ![c].known = TRUE,
                              ![c].src = outcome, ![c].proc = TRUE]
    /\ NoTts
    /\ UNCHANGED <<quota, doc>>
    /\ UNCHANGED <<Service, methods, threads, nextId>>

\* S54 that takes an empty fragment list for study data
S54EmptyOk(c, name, outcome) ==
    /\ callers[c].pc = "s54"
    /\ (name \in AVAILABLE_METHODS /\ outcome > 0)
            => nextId + Pending <= quota.sessions
    /\ callers' =
         IF name \notin AVAILABLE_METHODS
         THEN Reply(c, "false", "unknown")
         ELSE IF outcome = Raises
         THEN [callers EXCEPT ![c].pc = "s86", ![c].known = TRUE,
                              ![c].src = outcome, ![c].proc = TRUE]
         ELSE [callers EXCEPT ![c].pc = "s69", ![c].known = TRUE,
                              ![c].src = outcome, ![c].proc = TRUE]
    /\ NoTts
    /\ UNCHANGED <<quota, doc>>
    /\ UNCHANGED <<Service, methods, threads, nextId>>

\* MethodClass = AVAILABLE_METHODS.get(method_name)
\* study_data = DocumentProcessor(pdf_path).fragment_text(split_by)
\* with method_name = name and the fragment source behaving as outcome
S54(c, name, outcome) ==
    /\ callers[c].pc = "s54"
    /\ (name \in AVAILABLE_METHODS /\ outcome > 0)
            => nextId + Pending <= quota.sessions
    /\ callers' =
         IF name \notin AVAILABLE_METHODS
         THEN Reply(c, "false", "unknown")
         ELSE IF outcome = Raises
         THEN [callers EXCEPT ![c].pc = "s86", ![c].known = TRUE,
                              ![c].src = outcome, ![c].proc = TRUE]
         ELSE IF outcome = 0
         THEN [callers EXCEPT ![c].pc = "idle", ![c].ret = "false",
                              ![c].msg = "no_data", ![c].known = TRUE,
                              ![c].src = outcome, ![c].proc = TRUE]
         ELSE [callers EXCEPT ![c].pc = "s69", ![c].known = TRUE,
                              ![c].src = outcome, ![c].proc = TRUE]
    /\ NoTts
    /\ UNCHANGED <<quota, doc>>
    /\ UNCHANGED <<Service, methods, threads, nextId>>

\* self.current_method = MethodClass(tts_engine, study_data, config)
S69(c) ==
    /\ callers[c].pc = "s69"
    /\ nextId \in Ids
    /\ current_method' = nextId
    /\ nextId' = nextId + 1
    /\ callers' = [callers EXCEPT ![c].pc = "s77", ![c].m = nextId]
    /\ NoTts
    /\ UNCHANGED <<quota, doc>>
    /\ UNCHANGED <<is_session_active, session_thread, threads>>
    /\ Collect([methods EXCEPT
                  ![nextId] = NewMethod(StudyData(callers[c].src))])

\* self.session_thread = threading.Thread(target=self._run_method_safely)
S77(c) ==
    /\ callers[c].pc = "s77"
    /\ threads' = [threads EXCEPT ![callers[c].m].pc = "created"]
    /\ session_thread' = callers[c].m
    /\ callers' = Goto(c, "s79")
    /\ NoTts
    /\ UNCHANGED <<quota, doc>>
    /\ UNCHANGED <<is_session_active, current_method, methods, nextId>>

\* self.session_thread.daemon = True; self.session_thread.start()
\* Both statements raise on None (AttributeError) and on a thread that was
\* already started (RuntimeError), and the first has no other effect, so
\* the two reads of self.session_thread are taken as one.
S79(c) ==
    /\ callers[c].pc = "s79"
    /\ IF session_thread = None \/ Started(session_thread)
       THEN /\ callers' = Goto(c, "s86")
            /\ UNCHANGED threads
       ELSE /\ callers' = [callers EXCEPT ![c].pc = "s80", ![c].spawned = TRUE]
            /\ threads' = [threads EXCEPT ![session_thread].pc = "t91"]
    /\ NoTts
    /\ UNCHANGED <<quota, doc>>
    /\ UNCHANGED <<Service, methods, nextId>>

\* self.is_session_active = True
S80(c) ==
    /\ callers[c].pc = "s80"
    /\ is_session_active' = TRUE
    /\ callers' = Goto(c, "s81")
    /\ NoTts
    /\ UNCHANGED <<quota, doc>>
    /\ UNCHANGED <<current_method, session_thread, methods, threads, nextId>>

\* print(... self.current_method.name ...); return True
\* (AttributeError when current_method is None)
S81(c) ==
    /\ callers[c].pc = "s81"
    /\ callers' = IF current_method = None THEN Goto(c, "s86")
                  ELSE Reply(c, "true", "started")
    /\ NoTts
    /\ UNCHANGED <<quota, doc>>
    /\ UNCHANGED <<Service, methods, threads, nextId>>

\* except ...: self.current_method = None; return False
S86(c) ==
    /\ callers[c].pc = "s86"
    /\ current_method' = None
    /\ callers' = Reply(c, "false", "failed")
    /\ NoTts
    /\ UNCHANGED <<quota, doc>>
    /\ UNCHANGED <<is_session_active, session_thread, threads, nextId>>
    /\ Collect(methods)

----------------------------------------------------------------------------
\* StudyService._run_method_safely, executed by background thread t

\* if self.current_method:   (otherwise the thread ends without cleanup)
T91(t) ==
    /\ threads[t].pc = "t91"
    /\ threads' = [threads EXCEPT
                     ![t].pc = IF current_method = None THEN "done" ELSE "t93"]
    /\ NoTts
    /\ UNCHANGED <<quota, doc>>
    /\ UNCHANGED <<Service, methods, callers, nextId>>

\* control leaves run() for the finally block
ToFinally(t) ==
    [threads EXCEPT ![t].pc = "t98", ![t].i = 0, ![t].interrupted = FALSE]

\* self.current_method.run() up to self.is_running = True
\* (AttributeError when current_method is None; run() returns at once on
\*  empty study_data; both go to the finally block)
T93(t) ==
    /\ threads[t].pc = "t93"
    /\ IF current_method = None \/ methods[current_method].study_data = <<>>
       THEN /\ threads' = ToFinally(t)
            /\ UNCHANGED methods
       ELSE /\ threads' = [threads EXCEPT ![t].pc = "r37",
                                          ![t].m = current_method]
            /\ methods' = [methods EXCEPT ![current_method].is_running = TRUE,
                                          ![current_method].runs = @ + 1]
    /\ NoTts
    /\ UNCHANGED <<quota, doc>>
    /\ UNCHANGED <<Service, callers, nextId>>

\* self.stop_requested = False; the for loop starts at the first chunk
R37(t) ==
    /\ threads[t].pc = "r37"
    /\ methods' = [methods EXCEPT ![threads[t].m].stop_requested = FALSE]
    /\ threads' = [threads EXCEPT ![t].pc = "r41", ![t].i = 1]
    /\ NoTts
    /\ UNCHANGED <<quota, doc>>
    /\ UNCHANGED <<Service, callers, nextId>>

\* loop exit: self.is_running = False, run() returns to the finally block
ExitLoop(t) ==
    /\ methods' = [methods EXCEPT ![threads[t].m].is_running = FALSE]
    /\ threads' = ToFinally(t)
    /\ NoTts

\* LoopHead leaving the loop one iteration early
LoopHeadShort(t, i) ==
    IF \/ i >= Len(methods[threads[t].m].study_data)
       \/ methods[threads[t].m].stop_requested
    THEN ExitLoop(t)
    ELSE /\ methods' = [methods EXCEPT ![threads[t].m].spoken =
                Append(@, methods[threads[t].m].study_data[i])]
         /\ threads' = [threads EXCEPT ![t].pc = "speaking", ![t].i = i]
         /\ ttsCall' = "speak"

\* Head of iteration i:
\*   for i, chunk in enumerate(self.study_data):
\*       if self.stop_requested: break
\*       self.tts_engine.speak(chunk)      (the call is made and blocks)
LoopHead(t, i) ==
    IF \/ i > Len(methods[threads[t].m].study_data)
       \/ methods[threads[t].m].stop_requested
    THEN ExitLoop(t)
    ELSE /\ methods' = [methods EXCEPT ![threads[t].m].spoken =
                Append(@, methods[threads[t].m].study_data[i])]
         /\ threads' = [threads EXCEPT ![t].pc = "speaking", ![t].i = i]
         /\ ttsCall' = "speak"

\* first iteration of the loop
R41(t) ==
    /\ threads[t].pc = "r41"
    /\ LoopHead(t, threads[t].i)
    /\ UNCHANGED <<quota, doc>>
    /\ UNCHANGED <<Service, callers, nextId>>

\* R51 without the check after speak: the pause is always entered
R51NoCheck(t) ==
    /\ threads[t].pc = "speaking"
    /\ threads' = [threads EXCEPT ![t].pc = "r57", ![t].interrupted = FALSE]
    /\ NoTts
    /\ UNCHANGED methods
    /\ UNCHANGED <<quota, doc>>
    /\ UNCHANGED <<Service, callers, nextId>>

\* speak has returned (after the playback or because it was interrupted):
\* if self.stop_requested: break, otherwise the pause begins
R51(t) ==
    /\ threads[t].pc = "speaking"
    /\ IF methods[threads[t].m].stop_requested
       THEN ExitLoop(t)
       ELSE /\ threads' = [threads EXCEPT ![t].pc = "r57",
                                          ![t].interrupted = FALSE]
            /\ NoTts
            /\ UNCHANGED methods
    /\ UNCHANGED <<quota, doc>>
    /\ UNCHANGED <<Service, callers, nextId>>

\* the speech engine raises: the exception leaves run() (is_running stays)
SpeakRaises(t) ==
    /\ threads[t].pc = "speaking"
    /\ threads' = ToFinally(t)
    /\ NoTts
    /\ UNCHANGED <<quota, doc>>
    /\ UNCHANGED <<Service, methods, callers, nextId>>

\* time.sleep(self.repeat_delay) is over; head of the next iteration
R57(t) ==
    /\ threads[t].pc = "r57"
    /\ LoopHead(t, threads[t].i + 1)
    /\ UNCHANGED <<quota, doc>>
    /\ UNCHANGED <<Service, callers, nextId>>

\* finally: self.is_session_active = False
T98(t) ==
    /\ threads[t].pc = "t98"
    /\ is_session_active' = FALSE
    /\ threads' = [threads EXCEPT ![t].pc = "t99"]
    /\ NoTts
    /\ UNCHANGED <<quota, doc>>
    /\ UNCHANGED <<current_method, session_thread, methods, callers, nextId>>

\* finally: self.current_method = None; the thread ends
T99(t) ==
    /\ threads[t].pc = "t99"
    /\ current_method' = None
    /\ threads' = [threads EXCEPT ![t] = [NoThread EXCEPT !.pc = "done"]]
    /\ NoTts
    /\ UNCHANGED <<quota, doc>>
    /\ UNCHANGED <<is_session_active, session_thread, callers, nextId>>
    /\ Collect(methods)

----------------------------------------------------------------------------
\* StudyService.stop_study_session

\* P108 that does not look at is_session_active
P108NoFlag(c) ==
    /\ callers[c].pc = "p108"
    /\ callers' = Goto(c, "p108b")
    /\ NoTts
    /\ UNCHANGED <<quota, doc>>
    /\ UNCHANGED <<Service, methods, threads, nextId>>

\* if self.is_session_active and ...   (first operand)
P108(c) ==
    /\ callers[c].pc = "p108"
    /\ callers' = IF is_session_active THEN Goto(c, "p108b")
                  ELSE Return(c, "false")
    /\ NoTts
    /\ UNCHANGED <<quota, doc>>
    /\ UNCHANGED <<Service, methods, threads, nextId>>

\* ... and self.current_method:        (second operand)
P108b(c) ==
    /\ callers[c].pc = "p108b"
    /\ callers' = IF current_method = None THEN Return(c, "false")
                  ELSE [callers EXCEPT ![c].pc = "p111", ![c].found = TRUE]
    /\ NoTts
    /\ UNCHANGED <<quota, doc>>
    /\ UNCHANGED <<Service, methods, threads, nextId>>

\* self.current_method.stop()   (AttributeError when it is None by now)
P111(c) ==
    /\ callers[c].pc = "p111"
    /\ callers' = IF current_method = None THEN Return(c, "raised")
                  ELSE [callers EXCEPT ![c].pc = "p67",
                                       ![c].m = current_method]
    /\ NoTts
    /\ UNCHANGED <<quota, doc>>
    /\ UNCHANGED <<Service, methods, threads, nextId>>

\* ReadRepeatMethod.stop: self.stop_requested = True
P67(c) ==
    /\ callers[c].pc = "p67"
    /\ methods' = [methods EXCEPT ![callers[c].m].stop_requested = TRUE,
                                  ![callers[c].m].stopped = TRUE]
    /\ callers' = Goto(c, "p69")
    /\ NoTts
    /\ UNCHANGED <<quota, doc>>
    /\ UNCHANGED <<Service, threads, nextId>>

\* TtsEngine.stop_speaking: engine.stop() interrupts the runAndWait() of
\* every speak call in progress on the shared engine
Interrupt ==
    [t \in Ids |-> IF threads[t].pc = "speaking"
                   THEN [threads[t] EXCEPT !.interrupted = TRUE]
                   ELSE threads[t]]

\* ReadRepeatMethod.stop: self.tts_engine.stop_speaking()
P69(c) ==
    /\ callers[c].pc = "p69"
    /\ ttsCall' = "stop_speaking"
    /\ callers' = [callers EXCEPT ![c].pc = "p115", ![c].nstop = @ + 1]
    /\ threads' = Interrupt
    /\ UNCHANGED <<quota, doc>>
    /\ UNCHANGED <<Service, nextId>>
    /\ Collect(methods)

\* if self.session_thread and self.session_thread.is_alive():
\*     self.session_thread.join(timeout=2)
\* The step is taken when the thread has ended or when the timeout expires.
P115(c) ==
    /\ callers[c].pc = "p115"
    /\ callers' = [callers EXCEPT ![c].pc = "p118",
            ![c].timedOut = (session_thread # None /\ Alive(session_thread))]
    /\ NoTts
    /\ UNCHANGED <<quota, doc>>
    /\ UNCHANGED <<Service, methods, threads, nextId>>

\* self.is_session_active = False
P118(c) ==
    /\ callers[c].pc = "p118"
    /\ is_session_active' = FALSE
    /\ callers' = Goto(c, "p119")
    /\ NoTts
    /\ UNCHANGED <<quota, doc>>
    /\ UNCHANGED <<current_method, session_thread, methods, threads, nextId>>

\* P119 that forgets to clear current_method
P119Skip(c) ==
    /\ callers[c].pc = "p119"
    /\ callers' = Goto(c, "p120")
    /\ NoTts
    /\ UNCHANGED <<quota, doc>>
    /\ UNCHANGED <<Service, methods, threads, nextId>>

\* self.current_method = None
P119(c) ==
    /\ callers[c].pc = "p119"
    /\ current_method' = None
    /\ callers' = Goto(c, "p120")
    /\ NoTts
    /\ UNCHANGED <<quota, doc>>
    /\ UNCHANGED <<is_session_active, session_thread, threads, nextId>>
    /\ Collect(methods)

\* self.session_thread = None; return True
P120(c) ==
    /\ callers[c].pc = "p120"
    /\ session_thread' = None
    /\ callers' = Return(c, "true")
    /\ NoTts
    /\ UNCHANGED <<quota, doc>>
    /\ UNCHANGED <<is_session_active, current_method, methods, threads,
                   nextId>>

----------------------------------------------------------------------------
\* get_study_status (the status endpoint reads the controller without a lock)

\* ... if study_service.current_method else None
G97(c) ==
    /\ callers[c].pc = "g97"
    /\ callers' = IF current_method = None THEN Goto(c, "g101")
                  ELSE Goto(c, "g97b")
    /\ NoTts
    /\ UNCHANGED <<quota, doc>>
    /\ UNCHANGED <<Service, methods, threads, nextId>>

\* study_service.current_method.name   (AttributeError when None by now)
G97b(c) ==
    /\ callers[c].pc = "g97b"
    /\ callers' = IF current_method = None THEN Return(c, "raised")
                  ELSE [callers EXCEPT ![c].pc = "g101",
                                       ![c].snapMethod = current_method]
    /\ NoTts
    /\ UNCHANGED <<quota, doc>>
    /\ UNCHANGED <<Service, methods, threads, nextId>>

\* StudyStatusResponse(is_active=study_service.is_session_active, ...)
G101(c) ==
    /\ callers[c].pc = "g101"
    /\ callers' = [callers EXCEPT ![c].pc = "idle", ![c].ret = "ok",
                                  ![c].snapActive = is_session_active]
    /\ NoTts
    /\ UNCHANGED <<quota, doc>>
    /\ UNCHANGED <<Service, methods, threads, nextId>>

----------------------------------------------------------------------------
\* start_study, after start_study_session returned True (line 65):
\*   current_method_name = study_service.current_method.name
\*       if study_service.current_method else request.method_name

\* the condition: ... if study_service.current_method else request.method_name
\* (on None the response carries the method identifier of the request)
E66(c) ==
    /\ callers[c].pc = "idle" /\ callers[c].op = "start"
    /\ callers[c].ret = "true" /\ callers[c].resp = "none"
    /\ callers' = IF current_method = None
                  THEN [callers EXCEPT ![c].resp = "method_id"]
                  ELSE Goto(c, "e66b")
    /\ NoTts
    /\ UNCHANGED <<quota, doc>>
    /\ UNCHANGED <<Service, methods, threads, nextId>>

\* study_service.current_method.name   (AttributeError when None by now);
\* return StudyStatusResponse(is_active=True, current_method=...)
E66b(c) ==
    /\ callers[c].pc = "e66b"
    /\ callers' = [callers EXCEPT ![c].pc = "idle",
                     ![c].resp = IF current_method = None THEN "raised"
                                 ELSE "display_name"]
    /\ NoTts
    /\ UNCHANGED <<quota, doc>>
    /\ UNCHANGED <<Service, methods, threads, nextId>>

----------------------------------------------------------------------------
\* list_available_methods (reads no controller state: one step)

\* display name each registered class sets in __init__
DisplayName == [k \in AVAILABLE_METHODS |-> "Leer y Repetir"]
\* arguments ReadRepeatMethod.__init__ requires besides self
\* (tts_engine, study_data, config; none has a default)
InitArgs == 3
\* arguments the listing passes: method_cls()
ListingArgs == 0

\* method_cls(<nargs arguments>).name, or TypeError when the number of
\* arguments is not the one __init__ takes
Instantiate(k, nargs) ==
    IF nargs = InitArgs THEN DisplayName[k] ELSE "TypeError"

\* {name: method_cls().name for name, method_cls in AVAILABLE_METHODS.items()}
ListMethods(c) ==
    /\ callers[c].pc = "idle"
    /\ Issue(c)
    /\ UNCHANGED doc
    /\ callers' = [callers EXCEPT ![c] =
          IF \E k \in AVAILABLE_METHODS : Instantiate(k, ListingArgs) = "TypeError"
          THEN [IdleCaller EXCEPT !.op = "methods", !.ret = "raised"]
          ELSE [IdleCaller EXCEPT !.op = "methods", !.ret = "ok",
                  !.listing = {<<k, Instantiate(k, ListingArgs)>> :
                                  k \in AVAILABLE_METHODS}]]
    /\ NoTts
    /\ UNCHANGED <<Service, methods, threads, nextId>>

----------------------------------------------------------------------------
Next ==
    \/ \E c \in Callers : CallStart(c)
    \/ \E c \in Callers : CallStop(c)
    \/ \E c \in Callers : CallStatus(c)
    \/ \E c \in Callers : S49(c)
    \/ \E c \in Callers, name \in MethodNames, outcome \in Outcomes :
            S54(c, name, outcome)
    \/ \E c \in Callers : S69(c)
    \/ \E c \in Callers : S77(c)
    \/ \E c \in Callers : S79(c)
    \/ \E c \in Callers : S80(c)
    \/ \E c \in Callers : S81(c)
    \/ \E c \in Callers : S86(c)
    \/ \E t \in Ids : T91(t)
    \/ \E t \in Ids : T93(t)
    \/ \E t \in Ids : R37(t)
    \/ \E t \in Ids : R41(t)
    \/ \E t \in Ids : SpeakRaises(t)
    \/ \E t \in Ids : R51(t)
    \/ \E t \in Ids : R57(t)
    \/ \E t \in Ids : T98(t)
    \/ \E t \in Ids : T99(t)
    \/ \E c \in Callers : P108(c)
    \/ \E c \in Callers : P108b(c)
    \/ \E c \in Callers : P111(c)
    \/ \E c \in Callers : P67(c)
    \/ \E c \in Callers : P69(c)
    \/ \E c \in Callers : P115(c)
    \/ \E c \in Callers : P118(c)
    \/ \E c \in Callers : P119(c)
    \/ \E c \in Callers : P120(c)
    \/ \E c \in Callers : G97(c)
    \/ \E c \in Callers : G97b(c)
    \/ \E c \in Callers : G101(c)
    \/ \E c \in Callers : ListMethods(c)
    \/ \E c \in Callers : E66(c)
    \/ \E c \in Callers : E66b(c)

\* Two request-handling threads calling into the controller at once.
Spec == Init /\ [][Next]_vars

\* One foreground thread of control issuing the requests one after another.
SpecSeq == InitSeq /\ [][Next]_vars

\* The same with SoloSessions sessions.
SpecSolo == InitSolo /\ [][Next]_vars

\* A step of background thread t in which every blocking call it makes
\* (speak, the pause) returns.
ThreadStep(t) ==
    \/ T91(t) \/ T93(t) \/ R37(t) \/ R41(t) \/ R51(t) \/ R57(t)
    \/ T98(t) \/ T99(t)

\* A step of a call that request-handling thread c has in progress.
CallStep(c) ==
    \/ S49(c) \/ S69(c) \/ S77(c) \/ S79(c) \/ S80(c) \/ S81(c) \/ S86(c)
    \/ (\E name \in MethodNames, outcome \in Outcomes : S54(c, name, outcome))
    \/ P108(c) \/ P108b(c) \/ P111(c) \/ P67(c) \/ P69(c) \/ P115(c)
    \/ P118(c) \/ P119(c) \/ P120(c)
    \/ G97(c) \/ G97b(c) \/ G101(c)
    \/ E66(c) \/ E66b(c)

\* The operating system schedules every thread that can run: a started
\* background thread and a call in progress keep taking steps.  Whether a
\* request-handling thread issues another call is left open.
Fairness ==
    /\ \A t \in Ids : WF_vars(ThreadStep(t))
    /\ \A c \in Callers : WF_vars(CallStep(c))

\* One request-handling thread, SoloSessions sessions, fair scheduling.
SpecFair == InitSolo /\ [][Next]_vars /\ Fairness

----------------------------------------------------------------------------
\* DocumentProcessor.fragment_text, a pure function of raw_text and split_by.
\* A text is a sequence of characters: two letters, "sp" for a space (any
\* whitespace that is not a line break), "nl" for \n and "cr" for \r.

\* Longest text.
MaxText == 5
Chars == {"a", "b", "sp", "nl", "cr"}
Whitespace == {"sp", "nl", "cr"}
Texts == UNION {[1..n -> Chars] : n \in 0..MaxText}
SplitOptions == {"paragraph", "line", "sentence"}

RECURSIVE ReplaceCRLF(_)
\* s.replace('\r\n', '\n')
ReplaceCRLF(s) ==
    IF s = <<>> THEN <<>>
    ELSE IF Len(s) >= 2 /\ s[1] = "cr" /\ s[2] = "nl"
    THEN <<"nl">> \o ReplaceCRLF(SubSeq(s, 3, Len(s)))
    ELSE <<Head(s)>> \o ReplaceCRLF(Tail(s))

\* s.replace('\r', '\n')
ReplaceCR(s) == [j \in 1..Len(s) |-> IF s[j] = "cr" THEN "nl" ELSE s[j]]

RECURSIVE SplitFrom(_, _, _)
\* str.split(sep) for a non-empty sep, cur being the piece read so far
SplitFrom(s, sep, cur) ==
    IF Len(s) < Len(sep) THEN <<cur \o s>>
    ELSE IF SubSeq(s, 1, Len(sep)) = sep
    THEN <<cur>> \o SplitFrom(SubSeq(s, Len(sep) + 1, Len(s)), sep, <<>>)
    ELSE SplitFrom(Tail(s), sep, Append(cur, Head(s)))

Split(s, sep) == SplitFrom(s, sep, <<>>)

RECURSIVE LStrip(_)
LStrip(s) ==
    IF s # <<>> /\ Head(s) \in Whitespace THEN LStrip(Tail(s)) ELSE s

RECURSIVE RStrip(_)
RStrip(s) ==
    IF s # <<>> /\ s[Len(s)] \in Whitespace
    THEN RStrip(SubSeq(s, 1, Len(s) - 1)) ELSE s

\* str.strip()
Strip(s) == RStrip(LStrip(s))

\* StripKeep that strips but keeps the empty pieces
StripAll(pieces) == [j \in 1..Len(pieces) |-> Strip(pieces[j])]

RECURSIVE StripKeep(_)
\* [p.strip() for p in pieces if p.strip()]
StripKeep(pieces) ==
    IF pieces = <<>> THEN <<>>
    ELSE IF Strip(Head(pieces)) = <<>> THEN StripKeep(Tail(pieces))
    ELSE <<Strip(Head(pieces))>> \o StripKeep(Tail(pieces))

\* fragment_text(split_by) on a processor whose raw_text, once extracted,
\* is text (an unknown option makes the recursive call with "paragraph")
fragment_text(text, split_by) ==
    IF text = <<>> THEN <<>>
    ELSE IF split_by = "line"
    THEN StripKeep(Split(ReplaceCR(ReplaceCRLF(text)), <<"nl">>))
    ELSE StripKeep(Split(ReplaceCR(ReplaceCRLF(text)), <<"nl", "nl">>))

\* fragment_text is called on a processor with any text and any option
InitFrag ==
    /\ InitService
    /\ callers = [c \in Callers |-> IdleCaller]
    /\ quota = [sessions |-> 0, calls |-> [c \in Callers |-> 0]]
    /\ doc \in [raw_text : Texts, split_by : SplitOptions,
                 fragments : {<<>>}, pc : {"call"}]

FragmentText ==
    /\ doc.pc = "call"
    /\ doc' = [doc EXCEPT !.pc = "done",
                  !.fragments = fragment_text(doc.raw_text, doc.split_by)]
    /\ UNCHANGED <<Service, methods, threads, callers, nextId, quota, ttsCall>>

NextFrag == FragmentText

SpecFrag == InitFrag /\ [][NextFrag]_vars

----------------------------------------------------------------------------
\* Properties

\* caller c has returned from a call of operation op
Returned(c, op) == callers[c].pc = "idle" /\ callers[c].op = op
\* no thread has left run() or ended
NoCompletion == \A t \in Ids : threads[t].pc \notin {"t98", "t99", "done"}
StartedThreads == {t \in Ids : Started(t)}
Running == {t \in Ids : InRun(t)}

\* C1: when every request-handling thread has made a start call with a
\* registered method and at least one fragment, and no thread has completed
\* (no stop is issued: each caller makes one call), exactly one of the calls
\* returned True and exactly one background thread was started.
C1_SingleSlotAdmission ==
    ( /\ \A c \in Callers : Returned(c, "start") /\ callers[c].msg # "unknown"
                            /\ callers[c].msg # "no_data"
                            /\ ~(callers[c].known /\ callers[c].src = Raises)
      /\ NoCompletion )
    => /\ Cardinality({c \in Callers : callers[c].ret = "true"}) = 1
       /\ Cardinality(StartedThreads) = 1

\* C2: when no start call is in progress and the thread of the latest session
\* has ended, is_session_active is False.
C2_NoStuckActive ==
    ( /\ \A c \in Callers : callers[c].op = "start" => callers[c].pc = "idle"
      /\ nextId > 1
      /\ threads[nextId - 1].pc = "done" )
    => ~is_session_active

\* C3: a start call that executes its admission check while
\* is_session_active is True returns False in that step and changes nothing:
\* the controller fields, the method instances and the threads stay as they
\* are, and the document processor is not invoked.
C3_StartWhileActive ==
    [][\A c \in Callers :
         (callers[c].pc = "s49" /\ is_session_active /\ callers'[c] # callers[c])
         => /\ callers'[c].pc = "idle"
            /\ callers'[c].ret = "false"
            /\ ~callers'[c].proc
            /\ callers'[c].m = None
            /\ UNCHANGED <<Service, methods, threads, nextId>>
            /\ ttsCall' = "none"]_vars

\* a start was refused because a session is active, and it still is
C3_Witness ==
    \E c \in Callers :
        /\ Returned(c, "start") /\ callers[c].msg = "active"
        /\ is_session_active /\ current_method # None
        /\ \E t \in Ids : InRun(t)

\* C4: a start call with a registered method and at least one fragment that
\* passed the admission check returns True, and a status read made right
\* after a start that returned True reports is_active True and the method
\* instance that start created.
C4_StartThenStatus ==
    \A c \in Callers :
        /\ (Returned(c, "start") /\ callers[c].m # None)
                => callers[c].ret = "true"
        /\ (Returned(c, "status") /\ callers[c].prev # None)
                => /\ callers[c].ret = "ok"
                   /\ callers[c].snapActive
                   /\ callers[c].snapMethod = callers[c].prev

\* C5: after stop_study_session returned True the three controller fields
\* are cleared.
C5_StopClears ==
    \A c \in Callers :
        (Returned(c, "stop") /\ callers[c].ret = "true")
        => /\ ~is_session_active
           /\ current_method = None
           /\ session_thread = None

\* stop returned True after its join timed out, and the thread is still alive
C5_Witness ==
    \E c \in Callers :
        /\ Returned(c, "stop") /\ callers[c].ret = "true"
        /\ callers[c].timedOut
        /\ \E t \in Ids : Alive(t)

\* C6: after stop_study_session returned, True or False, is_session_active
\* is False.
C6_StopConverges ==
    \A c \in Callers :
        (Returned(c, "stop") /\ callers[c].ret \in {"true", "false"})
        => ~is_session_active

\* C7: a stop call that executes its check while is_session_active is False
\* returns False in that step, makes no call to the TTS engine and leaves the
\* controller fields, the method instances and the threads as they are.
C7_StopWhenInactive ==
    [][\A c \in Callers :
         (callers[c].pc = "p108" /\ ~is_session_active)
         => \/ callers'[c] = callers[c]
            \/ /\ callers'[c].pc = "idle"
               /\ callers'[c].ret = "false"
               /\ callers'[c].nstop = 0
               /\ ttsCall' = "none"
               /\ UNCHANGED <<Service, methods, threads, nextId>>]_vars

\* stop returned False on an inactive controller whose current_method is
\* still set (the ended session's thread has not yet cleared it)
C7_Witness ==
    \E c \in Callers :
        /\ Returned(c, "stop") /\ callers[c].ret = "false"
        /\ ~callers[c].found
        /\ ~is_session_active /\ current_method # None

\* C8: a stop call that found a session active (passed line 108) has invoked
\* stop_speaking exactly once when it ends, and stop_speaking is only ever
\* invoked by a stop call inside the method's stop().
C8_StopSpeakingOnce ==
    /\ \A c \in Callers :
         (Returned(c, "stop") /\ callers[c].found) => callers[c].nstop = 1
    /\ ttsCall = "stop_speaking"
         => \E c \in Callers : callers[c].op = "stop" /\ callers[c].pc = "p115"

\* C9: is_session_active is True exactly when session_thread is set and that
\* thread has not ended, and current_method is set whenever
\* is_session_active is True.
C9_SessionInvariant ==
    /\ is_session_active <=>
         (session_thread # None /\ threads[session_thread].pc # "done")
    /\ is_session_active => current_method # None

\* C10: at most one background thread is inside a study method's run().
C10_OneRunAtATime == Cardinality(Running) <= 1

\* the method instance whose run() thread t has returned from normally
\* (run() sets is_running False only on its way out of the loop)
RunReturned(t) ==
    /\ threads[t].pc \in {"t98", "t99"}
    /\ threads[t].m # None
    /\ ~methods[threads[t].m].is_running

\* C11: when run() has returned on an instance with fragments f1..fN whose
\* stop() was never called (run() having been called once on it), the speak
\* calls it made are exactly f1, ..., fN in that order (the pause between
\* fragments may have any length, 0 included).
C11_RunToCompletion ==
    \A t \in Ids :
        ( /\ RunReturned(t)
          /\ ~methods[threads[t].m].stopped
          /\ methods[threads[t].m].runs = 1 )
        => methods[threads[t].m].spoken = methods[threads[t].m].study_data

\* run() has returned after speaking two or more fragments, never stopped
C11_Witness ==
    \E t \in Ids :
        /\ RunReturned(t) /\ ~methods[threads[t].m].stopped
        /\ methods[threads[t].m].runs = 1
        /\ Len(methods[threads[t].m].study_data) >= 2
        /\ methods[threads[t].m].spoken = methods[threads[t].m].study_data

\* no stop_study_session call is in progress or was the latest call
NoStopCall == \A c \in Callers : callers[c].op # "stop"
Inactive == ~is_session_active /\ current_method = None
\* an exception has left run() (is_running was not reset on the way out)
RunRaised ==
    \E t \in Ids : /\ threads[t].pc \in {"t98", "t99"}
                    /\ threads[t].m # None
                    /\ methods[threads[t].m].is_running

\* C12: in a run in which stop_study_session is never called and every
\* speak call and pause returns (none raises), once a start call has
\* returned True the controller eventually reaches, and from then on stays
\* in, a state with is_session_active False and current_method None (the
\* background thread being scheduled fairly).
C12_EventuallyInactive ==
    ([]NoStopCall /\ []~RunRaised) =>
        ((\E c \in Callers : Returned(c, "start") /\ callers[c].ret = "true")
            ~> []Inactive)

\* no call is in progress
Quiet == \A c \in Callers : callers[c].pc = "idle"
\* the background thread of the session created last has ended
LastEnded == nextId > 1 /\ threads[nextId - 1].pc = "done"
\* the thread of the controller's session has already run its cleanup
\* (line 98 executed, or the thread ended)
ThreadFinalized ==
    session_thread # None /\ threads[session_thread].pc \in {"t99", "done"}

\* C13: once a session's thread has ended and no call is in progress, the
\* three controller fields are cleared; and the clearing is done once per
\* session: stop_study_session does not clear (line 118) a session whose
\* background thread has already done so.
C13_FinalizedOnce ==
    /\ (Quiet /\ LastEnded) => (Inactive /\ session_thread = None)
    /\ \A c \in Callers : callers[c].pc = "p119" => ~ThreadFinalized

\* this step ends a start call of c in which the fragment source raised or
\* returned no fragment
SourceFailedReturn(c) ==
    /\ callers[c].op = "start" /\ callers[c].pc # "idle"
    /\ callers'[c].pc = "idle"
    /\ callers'[c].known /\ callers'[c].src \in {Raises, 0}
\* a background thread is between lines 98 and 99 of its cleanup
Cleaning == \E t \in Ids : threads[t].pc = "t99"

UnknownMethodReturn(c) ==
    /\ callers[c].op = "start" /\ callers[c].pc = "s54"
    /\ callers'[c].pc = "idle" /\ ~callers'[c].known

\* C15: a start call whose method_name is not registered returns False at
\* the lookup; neither that step nor the admission check before it invokes
\* the document processor, creates a method or a thread, makes a TTS call,
\* or changes is_session_active, current_method or session_thread.
C15_UnknownMethod ==
    [][\A c \in Callers :
          /\ (callers[c].pc = "s49" /\ callers'[c] # callers[c])
                => /\ UNCHANGED <<Service, methods, threads, nextId>>
                   /\ ttsCall' = "none" /\ ~callers'[c].proc
          /\ UnknownMethodReturn(c)
                => /\ callers'[c].ret = "false"
                   /\ ~callers'[c].proc /\ callers'[c].m = None
                   /\ UNCHANGED <<Service, methods, threads, nextId>>
                   /\ ttsCall' = "none"]_vars

\* a start with an unregistered method name was refused while the previous
\* session's thread was still between lines 98 and 99
C15_Witness ==
    \E c \in Callers :
        /\ Returned(c, "start") /\ callers[c].msg = "unknown"
        /\ callers[c].ret = "false"
        /\ current_method # None /\ session_thread # None

\* C16: every start call that returned True started one background thread
\* and every start call that returned False started none (so the number of
\* threads ever started equals the number of calls that returned True).
C16_ThreadPerSuccess ==
    \A c \in Callers :
        Returned(c, "start") => (callers[c].ret = "true" <=> callers[c].spawned)

\* C17: a stop call in progress can always take its next step whatever the
\* background thread does (the join is bounded by its timeout), and a stop
\* call that found a session active (passed line 108) ends by returning
\* True, join timeout or not.
C17_StopTerminates ==
    /\ \A c \in Callers :
          (callers[c].op = "stop" /\ callers[c].pc # "idle")
              => ENABLED CallStep(c)
    /\ \A c \in Callers :
          (Returned(c, "stop") /\ callers[c].found) => callers[c].ret = "true"

\* C18: the methods listing completes without error and maps every key of
\* AVAILABLE_METHODS to the display name of its class.
C18_MethodsListing ==
    \A c \in Callers :
        Returned(c, "methods")
        => /\ callers[c].ret = "ok"
           /\ callers[c].listing =
                 {<<k, DisplayName[k]>> : k \in AVAILABLE_METHODS}

\* stop() has been called on method instance k and has returned
StopReturned(k) ==
    /\ methods[k].stopped
    /\ ~\E c \in Callers : callers[c].pc = "p69" /\ callers[c].m = k

\* C19: once stop() has been called on a method instance, stop_requested
\* stays True for as long as the instance lives, and once stop() has
\* returned the run loop begins no further speak call.
C19_StopNotLost ==
    [][\A k \in Ids :
          (methods[k].stopped /\ methods'[k].stopped)
          => /\ methods'[k].stop_requested
             /\ StopReturned(k) => methods'[k].spoken = methods[k].spoken]_vars

\* Thread t runs the method of its own session, which was stopped, and the
\* controller holds a later session, active and with its method set (the
\* stop returned after its join on t timed out, then a start succeeded).
Superseded(t) ==
    /\ threads[t].m = t /\ methods[t].stopped
    /\ Quiet
    /\ session_thread # None /\ session_thread # t
    /\ is_session_active /\ current_method = session_thread

\* C20: the cleanup of the thread of an earlier, stopped session (lines
\* 98-99) does not change is_session_active or current_method of the
\* session that was started after it.
C20_OwnSessionOnly ==
    [][\A t \in Ids :
          (threads[t].pc \in {"t98", "t99"} /\ threads'[t] # threads[t]
             /\ Superseded(t))
          => UNCHANGED <<is_session_active, current_method>>]_vars

\* C21: every stop_study_session call ends by returning a boolean; none
\* ends with an exception.
C21_StopNeverRaises ==
    \A c \in Callers :
        Returned(c, "stop") => callers[c].ret \in {"true", "false"}

\* C22: stop_speaking is invoked only by a stop call that has already set
\* stop_requested on the method, the join is reached only after
\* stop_speaking was invoked, and a speak call that returns after it was
\* interrupted is followed by a check that finds stop_requested True: the
\* loop exits instead of entering the pause.
C22_StopOrdering ==
    [][/\ ttsCall' = "stop_speaking"
            => \E c \in Callers : /\ callers[c].pc = "p69"
                                   /\ methods[callers[c].m].stopped
                                   /\ callers'[c].pc = "p115"
       /\ \A c \in Callers : callers'[c].pc = "p118" => callers'[c].nstop = 1
       /\ \A t \in Ids :
            (threads[t].pc = "speaking" /\ threads[t].interrupted
               /\ threads'[t].pc # "speaking")
            => threads'[t].pc = "t98"]_vars

\* thread t is at a check of stop_requested (line 41 at the top of an
\* iteration, line 51 after speak) and the flag is True
AtCheckStopped(t) ==
    /\ threads[t].pc \in {"r41", "speaking", "r57"}
    /\ methods[threads[t].m].stop_requested

\* C23: when stop_requested is True at a check of the run loop (after a
\* speak call returns, or at the top of an iteration), the step that makes
\* the check leaves the loop: the pause is not entered, no fragment is
\* spoken and run() returns.
C23_ExitOnStop ==
    [][\A t \in Ids :
          (AtCheckStopped(t) /\ threads'[t].pc # threads[t].pc)
          => /\ threads'[t].pc = "t98"
             /\ methods'[threads[t].m].spoken = methods[threads[t].m].spoken
             /\ ttsCall' = "none"]_vars

\* run() has returned on a stop request after speaking some but not all of
\* its fragments
C23_Witness ==
    \E t \in Ids :
        /\ RunReturned(t) /\ methods[threads[t].m].stop_requested
        /\ Len(methods[threads[t].m].spoken) >= 1
        /\ Len(methods[threads[t].m].spoken)
              < Len(methods[threads[t].m].study_data)

\* sequence a is a prefix of sequence b
IsPrefix(a, b) == Len(a) <= Len(b) /\ \A j \in 1..Len(a) : a[j] = b[j]

\* C24: for every method instance the texts passed to speak so far are a
\* prefix of its fragment list, and its run() has been called at most once.
C24_SpokenPrefix ==
    \A k \in Ids :
        /\ IsPrefix(methods[k].spoken, methods[k].study_data)
        /\ methods[k].runs <= 1

\* a session has been run and every background thread that was started has
\* completed and run its cleanup
SessionEnded ==
    /\ nextId > 1
    /\ \A t \in Ids : threads[t].pc \in {"none", "done"}

\* C25: a start call that makes its admission check after the session has
\* ended (the background task completed and its cleanup ran) is admitted;
\* it is not refused as "already active".
C25_SlotReusable ==
    [][\A c \in Callers :
          (callers[c].pc = "s49" /\ callers'[c].pc # "s49" /\ SessionEnded)
          => callers'[c].pc = "s54"]_vars

\* C26: the success response of the start endpoint carries the display name
\* of the started method; it never carries the method identifier of the
\* request, and building it never fails.
C26_StartResponse ==
    \A c \in Callers :
        callers[c].resp # "none" => callers[c].resp = "display_name"

\* C27: whenever a background thread calls run() on the controller's method
\* (line 93), that method's fragment list is non-empty: run() goes on to
\* its loop, the early return on empty data (lines 32-34) is not taken.
C27_RunHasFragments ==
    [][\A t \in Ids :
          (threads[t].pc = "t93" /\ threads'[t].pc # "t93"
             /\ current_method # None)
          => /\ Len(methods[current_method].study_data) >= 1
             /\ threads'[t].pc = "r37"
             /\ threads'[t].m = current_method]_vars

\* a background thread has entered run() on a method with fragments
C27_Witness ==
    \E t \in Ids :
        /\ threads[t].pc = "r37" /\ threads[t].m # None
        /\ Len(methods[threads[t].m].study_data) >= 1
        /\ methods[threads[t].m].is_running

RECURSIVE TextLines(_, _)
\* The lines of a text, a line ending at \n, \r or \r\n; cur is the line
\* read so far.
TextLines(s, cur) ==
    IF s = <<>> THEN <<cur>>
    ELSE IF Len(s) >= 2 /\ s[1] = "cr" /\ s[2] = "nl"
    THEN <<cur>> \o TextLines(SubSeq(s, 3, Len(s)), <<>>)
    ELSE IF Head(s) \in {"nl", "cr"}
    THEN <<cur>> \o TextLines(Tail(s), <<>>)
    ELSE TextLines(Tail(s), Append(cur, Head(s)))

\* a line with nothing but spaces in it
Blank(line) == \A j \in 1..Len(line) : line[j] \in Whitespace

RECURSIVE NonBlankStripped(_)
\* the non-blank members of a sequence of pieces, each stripped
NonBlankStripped(pieces) ==
    IF pieces = <<>> THEN <<>>
    ELSE IF Blank(Head(pieces)) THEN NonBlankStripped(Tail(pieces))
    ELSE <<Strip(Head(pieces))>> \o NonBlankStripped(Tail(pieces))

RECURSIVE Blocks(_, _, _)
\* The blocks of consecutive lines between separator lines, the lines of a
\* block joined by \n.  A separator is a blank line, or, when emptyOnly,
\* only an empty one.
Blocks(lines, emptyOnly, cur) ==
    IF lines = <<>> THEN <<cur>>
    ELSE IF (IF emptyOnly THEN Head(lines) = <<>> ELSE Blank(Head(lines)))
    THEN <<cur>> \o Blocks(Tail(lines), emptyOnly, <<>>)
    ELSE Blocks(Tail(lines), emptyOnly, cur \o <<"nl">> \o Head(lines))

\* what the claim says fragment_text returns
ExpectedFragments(text, split_by, emptyOnly) ==
    IF split_by = "line"
    THEN NonBlankStripped(TextLines(text, <<>>))
    ELSE NonBlankStripped(Blocks(TextLines(text, <<>>), emptyOnly, <<>>))

\* C28 as stated: fragment_text returns no empty or whitespace-only
\* fragment; in line mode it returns the stripped non-blank lines of the
\* text in order, in paragraph mode the stripped non-blank blocks separated
\* by a blank line, and with an unrecognized option what paragraph mode
\* returns.
C28_FragmentText ==
    doc.pc = "done"
    => /\ \A j \in 1..Len(doc.fragments) : ~Blank(doc.fragments[j])
       /\ doc.fragments = ExpectedFragments(doc.raw_text, doc.split_by, FALSE)
       /\ doc.split_by \notin {"paragraph", "line"}
            => doc.fragments = fragment_text(doc.raw_text, "paragraph")

\* C28 amended: the same, the blocks of paragraph mode being separated by
\* an empty line (two consecutive line breaks); a line holding only spaces
\* does not separate two blocks.
C28_FragmentTextAmended ==
    doc.pc = "done"
    => /\ \A j \in 1..Len(doc.fragments) : ~Blank(doc.fragments[j])
       /\ doc.fragments = ExpectedFragments(doc.raw_text, doc.split_by, TRUE)
       /\ doc.split_by \notin {"paragraph", "line"}
            => doc.fragments = fragment_text(doc.raw_text, "paragraph")

\* paragraph mode has returned two fragments from a text whose blocks are
\* separated by more than one empty line
C28_Witness ==
    /\ doc.pc = "done" /\ doc.split_by = "paragraph"
    /\ doc.raw_text = <<"a", "nl", "nl", "nl", "b">>
    /\ doc.fragments = << <<"a">>, <<"b">> >>

====
